---- MODULE Spec2Model ----
(***************************************************************************)
(* A model of the gilliam orchestrator's scheduler: the placement policy,  *)
(* the three control loops (Scheduler, Updater, Terminator) and the        *)
(* bootstrap procedure.                                                    *)
(***************************************************************************)
EXTENDS Integers, Sequences, FiniteSets, TLC

None == "none"

\* what select() returns when no executor is left: Python's None
NoExecutor == [name |-> None]

\* an instance without placement options: Python's None
NoPlacement == [unset |-> TRUE]

\* ---------------------------------------------------------------------
\* Bounds of the model
\* ---------------------------------------------------------------------
MaxExec == 3        \* longest executor list handed to the policy
MaxCont == 2        \* largest container count of an executor
MaxReq == 2         \* longest requirement list in the placement options
MaxInst == 3        \* number of instance records in the store
MaxSvc == 2         \* services of a manifest besides _store and _bootstrap
MaxCalls == 3       \* calls of store methods in a run
Backlog == 100      \* unassigned instances waiting for one tick
MaxTime == 4        \* the clock stops here
Burst == 2          \* capacity of a token bucket (scaled down from 30)
Rate == 1           \* tokens per clock unit (scaled down from 10)

Tags == {"webserver", "db"}

\* ---------------------------------------------------------------------
\* State
\* ---------------------------------------------------------------------
VARIABLES
    executors,      \* policy: the list object passed to select()
    options,        \* policy: the placement options passed to select()
    executors0,     \* policy: the list as it was before the first call
    filtered,       \* policy: what the filter returned in the last call
    selected,       \* policy: sequence of the values select() returned
    eorder,         \* policy: the list object after each call
    clock,          \* clock.time()
    store,          \* instance records of the coordination store, by name
    clients,        \* manager.clients(): the live executors
    started,        \* the control loops whose start() was called
    flaky,          \* whether the executor manager can raise DispatchError
    slim,           \* Scheduler._limiter
    spc,            \* Scheduler: "idle" between ticks, "loop" inside one
    snext,          \* Scheduler._runner: earliest start of the next tick
    squeue,         \* Scheduler: instances the for loop has yet to visit
    ssnap,          \* Scheduler: what unassigned() yielded for this tick
    slog,           \* Scheduler: what this tick did, one entry per visit
    containers,     \* the executor manager's view: container by instance
    ulim,           \* Updater._limiter
    upc,            \* Updater: "idle" between ticks, "loop" inside one
    unext,          \* Updater._runner: earliest start of the next tick
    uqueue,         \* Updater: (instance, container) pairs yet to visit
    usnap,          \* Updater: the pairs zipped at the start of the tick
    ulog,           \* Updater: what this tick did, one entry per visit
    tlim,           \* Terminator._limiter
    tpc,            \* Terminator: "idle" between ticks, "loop" inside one
    tnext,          \* Terminator._runner: earliest start of the next tick
    tqueue,         \* Terminator: instances yet to visit
    tsnap,          \* Terminator: what shutting_down() yielded
    tlog,           \* Terminator: what this tick did, one entry per visit
    issuedAt,       \* per loop and clock value, the actions issued then
    manifest,       \* bootstrap: the service names of release['services']
    insts,          \* bootstrap: the dict of in-memory instances, by name
    border,         \* bootstrap: the iteration order of that dict
    bpc,            \* bootstrap: where _bootstrap0 is
    bidx,           \* bootstrap: position of the for loop in border
    lock,           \* the holder written in the 'leader' slot, or None
    rpc,            \* a rival holder of 'leader': "out", "polling" or "in"
    release,        \* the release record of the store, or None
    events,         \* what the bootstrapper did, in order
    db,             \* xsnaga: the rows the database holds, committed
    txlog           \* xsnaga: the calls of store operations, with outcomes

polVars == <<executors, options, executors0, filtered, selected, eorder>>
schedVars == <<slim, spc, snext, squeue, ssnap, slog>>
updVars == <<ulim, upc, unext, uqueue, usnap, ulog>>
termVars == <<tlim, tpc, tnext, tqueue, tsnap, tlog>>
envVars == <<clock, store, clients, started, flaky, containers, issuedAt>>

bootVars == <<manifest, insts, border, bpc, bidx, lock, rpc, release, events>>

txVars == <<db, txlog>>

vars == <<polVars, schedVars, updVars, termVars, envVars, bootVars, txVars>>

\* ---------------------------------------------------------------------
\* RequirementRankPlacementPolicy
\* ---------------------------------------------------------------------

\* A requirement is the expression "'<tag>' in tags", written as its tag.
eval_requirement(requirement, executor) == requirement \in executor.tags

RECURSIVE FilterEach(_, _)
\* the comprehension's outer "for requirement in requirements" with its
\* inner "for executor in executors if ..."
FilterEach(requirements, execs) ==
    IF requirements = <<>> THEN <<>>
    ELSE SelectSeq(execs, LAMBDA e : eval_requirement(Head(requirements), e))
         \o FilterEach(Tail(requirements), execs)

filter_out_executors_that_do_not_match_requirements(execs, opts) ==
    LET requirements == opts.requirements IN
    IF requirements = <<>> THEN execs
    ELSE FilterEach(requirements, execs)

DEFAULT_RANK == "-ncont"

collect_vars(executor) == executor.ncont

\* The rank expressions of the model: "-ncont" and "ncont".
eval_rank(rank, ncont) == IF rank = "-ncont" THEN 0 - ncont ELSE ncont

RankOf(opts) == IF opts.rank = None THEN DEFAULT_RANK ELSE opts.rank

RECURSIVE SortByKey(_, _)
\* list.sort(key=...): ascending and stable
SortByKey(s, rank) ==
    IF s = <<>> THEN <<>>
    ELSE LET n == Len(s)
             rest == SortByKey(SubSeq(s, 1, n - 1), rank)
             k == eval_rank(rank, collect_vars(s[n]))
             p == Cardinality({i \in 1..Len(rest) :
                      eval_rank(rank, collect_vars(rest[i])) <= k})
         IN SubSeq(rest, 1, p) \o <<s[n]>> \o SubSeq(rest, p + 1, Len(rest))

rank_executors(execs, opts) == SortByKey(execs, RankOf(opts))

select(execs, opts) ==
    LET e == rank_executors(
                 filter_out_executors_that_do_not_match_requirements(
                     execs, opts), opts)
    IN IF e = <<>> THEN NoExecutor ELSE e[1]

\* What a call of select() leaves in the list object it was handed: with no
\* requirements the filter returns that very object and sort() reorders it
\* in place; otherwise the comprehension builds a new list.
ArgumentAfterSelect(execs, opts) ==
    IF opts.requirements = <<>>
    THEN rank_executors(execs, opts)
    ELSE execs

\* ---------------------------------------------------------------------
\* Inputs of the policy
\* ---------------------------------------------------------------------
ExecutorAttrs == [tags : SUBSET Tags, ncont : 0..MaxCont]

ExecutorName(i) == <<"e1", "e2", "e3", "e4", "e5">>[i]

NameExecutors(f, n) ==
    [i \in 1..n |-> [name |-> ExecutorName(i), tags |-> f[i].tags,
                     ncont |-> f[i].ncont]]

RequirementLists == UNION {[1..n -> Tags] : n \in 0..MaxReq}

PlacementOptions ==
    [requirements : RequirementLists, rank : {None, "-ncont", "ncont"}]

\* policy.select(executors, options), called on the same list object again
Select ==
    /\ Len(selected) < 2
    /\ filtered' = filter_out_executors_that_do_not_match_requirements(
                       executors, options)
    /\ selected' = Append(selected, select(executors, options))
    /\ executors' = ArgumentAfterSelect(executors, options)
    /\ eorder' = Append(eorder, executors')
    /\ UNCHANGED <<options, executors0, schedVars, updVars, termVars,
                   envVars, bootVars, txVars>>

\* ---------------------------------------------------------------------
\* util.TokenBucketRateLimiter(clock, rate, burst)
\* ---------------------------------------------------------------------
Min(a, b) == IF a <= b THEN a ELSE b

Last(s) == s[Len(s)]

\* a limiter of the given rate (tokens per clock unit) and burst, full
Limiter(now, rate, burst) ==
    [tokens |-> burst, last |-> now, rate |-> rate, burst |-> burst]

\* the limiter as constructed at time now
NewLimiter(now) == Limiter(now, Rate, Burst)

\* tokens accrue as (now - last) * rate, clamped at burst
Accrued(lim, now) ==
    Min(lim.burst, lim.tokens + (now - lim.last) * lim.rate)

\* check(): true and one token less when a token is available
check(lim, now) ==
    LET t == Accrued(lim, now) IN
    IF t >= 1
    THEN [ok |-> TRUE, lim |-> [lim EXCEPT !.tokens = t - 1, !.last = now]]
    ELSE [ok |-> FALSE, lim |-> [lim EXCEPT !.tokens = t, !.last = now]]

\* "if not self._limiter.check(): break" leaves the for loop
LimiterDenies_Never(c) == FALSE

LimiterDenies(c) == ~c.ok

\* RecurringTask(3, task): the delay between a completion and the next start
Interval == 3

\* TokenBucketRateLimiter(clock, 10, 30): tokens per second, and burst
LimiterRate == 10

LimiterBurst == 30

\* ---------------------------------------------------------------------
\* Instances and the store queries
\* ---------------------------------------------------------------------
STATE_PENDING == "pending"
STATE_RUNNING == "running"
STATE_MIGRATING == "migrating"
STATE_SHUTTING_DOWN == "shutting_down"
STATE_TERMINATED == "terminated"

States == {STATE_PENDING, STATE_RUNNING, STATE_MIGRATING,
           STATE_SHUTTING_DOWN, STATE_TERMINATED}

InstNames == 1..MaxInst

is_running_Any(inst) == inst.state \in States

is_running(inst) ==
    \/ inst.state = STATE_PENDING
    \/ inst.state = STATE_RUNNING
    \/ inst.state = STATE_MIGRATING

\* the names of S in ascending order
Sorted(S) ==
    [k \in 1..Cardinality(S) |->
        CHOOSE x \in S : Cardinality({y \in S : y < x}) = k - 1]

\* a write of one instance record
Put(st, rec) ==
    [i \in DOMAIN st \cup {rec.name} |-> IF i = rec.name THEN rec ELSE st[i]]

\* store_query.unassigned(): the instances that need a placement, by name
unassigned(st) ==
    LET names == SelectSeq(Sorted(DOMAIN st),
                     LAMBDA i : st[i].state = STATE_PENDING)
    IN [k \in 1..Len(names) |-> st[names[k]]]

\* instance.dispatch(manager, name) when the executor manager accepts it
Dispatched(rec, name) ==
    [rec EXCEPT !.assigned_to = name, !.state = STATE_RUNNING]

\* "instance.placement or {}" as options.get() reads it
NoOptions == [requirements |-> <<>>, rank |-> None]

PlacementOf(instance) ==
    IF instance.placement = NoPlacement THEN NoOptions
    ELSE instance.placement

Loops == {"scheduler", "updater", "terminator"}

\* the count of a loop's actions at the present clock value goes up, for the
\* loops issuedAt keeps counts of
Issue(loop) ==
    IF loop \in DOMAIN issuedAt
    THEN [issuedAt EXCEPT ![loop][clock] = @ + 1]
    ELSE issuedAt

\* ---------------------------------------------------------------------
\* Scheduler
\* ---------------------------------------------------------------------

\* the executor name the body of the for loop dispatches to, None for no
\* dispatch
DispatchTarget_AlwaysSelects(instance, cl) ==
    LET executor == select(cl, PlacementOf(instance))
    IN IF executor = NoExecutor THEN None ELSE executor.name

DispatchTarget_IgnoresPlacement(instance, cl) ==
    IF instance.assigned_to # None
    THEN instance.assigned_to
    ELSE LET executor == select(cl, NoOptions)
         IN IF executor = NoExecutor THEN None ELSE executor.name

DispatchTarget(instance, cl) ==
    IF instance.assigned_to # None
    THEN instance.assigned_to
    ELSE LET executor == select(cl, PlacementOf(instance))
         IN IF executor = NoExecutor THEN None ELSE executor.name

\* "except DispatchError" sits inside the for loop: the loop goes on with
\* the instances that remain
OnDispatchError_LeavesLoop(rest) == <<>>

OnDispatchError(rest) == rest

SchedLogEntry(instance, ev, to) ==
    [inst |-> instance.name, ev |-> ev, to |-> to]

\* _runner fires _do_schedule; the for loop starts on unassigned()
SchedStart ==
    /\ "scheduler" \in started
    /\ spc = "idle"
    /\ clock >= snext
    /\ spc' = "loop"
    /\ squeue' = unassigned(store)
    /\ ssnap' = unassigned(store)
    /\ slog' = <<>>
    /\ UNCHANGED <<slim, snext, envVars, polVars, txVars, bootVars, updVars, termVars>>

\* one pass through the body of the for loop of _do_schedule
SchedStep ==
    /\ spc = "loop"
    /\ squeue # <<>>
    /\ LET instance == Head(squeue)
           c == check(slim, clock)
           target == DispatchTarget(instance, clients)
       IN /\ slim' = c.lim
          /\ IF LimiterDenies(c)
             THEN /\ spc' = "idle"
                  /\ snext' = clock + Interval
                  /\ squeue' = <<>>
                  /\ slog' = Append(slog, SchedLogEntry(instance, "break", None))
                  /\ UNCHANGED <<store, issuedAt>>
             ELSE IF target = None
             THEN /\ squeue' = Tail(squeue)
                  /\ slog' = Append(slog, SchedLogEntry(instance, "nomatch", None))
                  /\ UNCHANGED <<spc, snext, store, issuedAt>>
             ELSE /\ issuedAt' = Issue("scheduler")
                  /\ \/ /\ store' = Put(store, Dispatched(instance, target))
                        /\ squeue' = Tail(squeue)
                        /\ slog' = Append(slog,
                               SchedLogEntry(instance, "dispatched", target))
                     \/ /\ flaky
                        /\ store' = store
                        /\ squeue' = OnDispatchError(Tail(squeue))
                        /\ slog' = Append(slog,
                               SchedLogEntry(instance, "error", target))
                  /\ UNCHANGED <<spc, snext>>
    /\ UNCHANGED <<ssnap, clock, clients, started, flaky, containers, polVars, txVars, bootVars,
                   updVars, termVars>>

\* the for loop of _do_schedule is exhausted and the tick returns
SchedReturn ==
    /\ spc = "loop"
    /\ squeue = <<>>
    /\ spc' = "idle"
    /\ snext' = clock + Interval
    /\ UNCHANGED <<slim, squeue, ssnap, slog, envVars, polVars, txVars, bootVars, updVars,
                   termVars>>

\* ---------------------------------------------------------------------
\* Updater
\* ---------------------------------------------------------------------

\* an env or ports value that is Python's None
NoneValue == [none |-> TRUE]

\* a dict literal (its items in insertion order) or a list literal
Items(items) == [items |-> items]

\* the manager knows no container for the instance: Python's None
NoContainer == [known |-> FALSE]

\* "x or {}" and "x or []"
OrEmpty(x) == IF x = NoneValue THEN <<>> ELSE x.items

\* == of two dicts: the same keys with the same values, in any order
DictEq(a, b) == {a[i] : i \in 1..Len(a)} = {b[i] : i \in 1..Len(b)}

equal_instance_container_NoEnv(inst, cont) ==
    /\ inst.image = cont.image
    /\ inst.command = cont.command
    /\ OrEmpty(inst.ports) = OrEmpty(cont.ports)

equal_instance_container(inst, cont) ==
    LET inst_env == OrEmpty(inst.env)
        cont_env == OrEmpty(cont.env)
        inst_ports == OrEmpty(inst.ports)
        cont_ports == OrEmpty(cont.ports)
    IN /\ inst.image = cont.image
       /\ inst.command = cont.command
       /\ DictEq(inst_env, cont_env)
       /\ inst_ports = cont_ports

\* store_query.index(): every instance record, by name
index(st) ==
    LET names == Sorted(DOMAIN st)
    IN [k \in 1..Len(names) |-> st[names[k]]]

\* zip(instances, manager.containers(instances))
ZipContainers(instances, conts) ==
    [k \in 1..Len(instances) |->
        [instance |-> instances[k], container |-> conts[instances[k].name]]]

\* what the body of the for loop of _do_update does with one pair:
\* "skip" (continue), "restart" or "repair" (state set to RUNNING)
UpdaterAction_NoRepair(instance, container) ==
    IF container = NoContainer THEN "skip"
    ELSE IF ~is_running(instance) THEN "skip"
    ELSE IF ~equal_instance_container(instance, container) THEN "restart"
    ELSE "skip"

UpdaterAction(instance, container) ==
    IF container = NoContainer THEN "skip"
    ELSE IF ~is_running(instance) THEN "skip"
    ELSE IF ~equal_instance_container(instance, container) THEN "restart"
    ELSE IF instance.state = STATE_MIGRATING THEN "repair"
    ELSE "skip"

\* instance.update(state=STATE_RUNNING)
UpdateState(rec, state) == [rec EXCEPT !.state = state]

UpdLogEntry(instance, ev) == [inst |-> instance.name, ev |-> ev]

\* _runner fires _do_update; the index is materialised and zipped
UpdStart ==
    /\ "updater" \in started
    /\ upc = "idle"
    /\ clock >= unext
    /\ upc' = "loop"
    /\ uqueue' = ZipContainers(index(store), containers)
    /\ usnap' = ZipContainers(index(store), containers)
    /\ ulog' = <<>>
    /\ UNCHANGED <<ulim, unext, envVars, polVars, txVars, bootVars, schedVars, termVars>>

\* one pass through the body of the for loop of _do_update
UpdStep ==
    /\ upc = "loop"
    /\ uqueue # <<>>
    /\ LET instance == Head(uqueue).instance
           container == Head(uqueue).container
           act == UpdaterAction(instance, container)
           c == check(ulim, clock)
       IN IF act = "skip"
          THEN /\ uqueue' = Tail(uqueue)
               /\ ulog' = Append(ulog, UpdLogEntry(instance, "skip"))
               /\ UNCHANGED <<ulim, upc, unext, store, issuedAt>>
          ELSE /\ ulim' = c.lim
               /\ IF LimiterDenies(c)
                  THEN /\ upc' = "idle"
                       /\ unext' = clock + Interval
                       /\ uqueue' = <<>>
                       /\ ulog' = Append(ulog, UpdLogEntry(instance, "break"))
                       /\ UNCHANGED <<store, issuedAt>>
                  ELSE /\ issuedAt' = Issue("updater")
                       /\ uqueue' = Tail(uqueue)
                       /\ IF act = "restart"
                          THEN \* instance.restart(manager), which may raise
                               \* DispatchError
                               /\ store' = store
                               /\ \E ev \in {"restart", "restart_error"} :
                                      /\ ev = "restart_error" => flaky
                                      /\ ulog' = Append(ulog,
                                                  UpdLogEntry(instance, ev))
                          ELSE /\ store' = Put(store,
                                              UpdateState(instance,
                                                          STATE_RUNNING))
                               /\ ulog' = Append(ulog,
                                              UpdLogEntry(instance, "repair"))
                       /\ UNCHANGED <<upc, unext>>
    /\ UNCHANGED <<usnap, clock, clients, started, flaky, containers, polVars, txVars, bootVars,
                   schedVars, termVars>>

\* the for loop of _do_update is exhausted and the tick returns
UpdReturn ==
    /\ upc = "loop"
    /\ uqueue = <<>>
    /\ upc' = "idle"
    /\ unext' = clock + Interval
    /\ UNCHANGED <<ulim, uqueue, usnap, ulog, envVars, polVars, txVars, bootVars, schedVars,
                   termVars>>

\* ---------------------------------------------------------------------
\* Terminator
\* ---------------------------------------------------------------------

\* store_query.shutting_down(): the instances to kill, by name
shutting_down(st) ==
    LET names == SelectSeq(Sorted(DOMAIN st),
                     LAMBDA i : st[i].state = STATE_SHUTTING_DOWN)
    IN [k \in 1..Len(names) |-> st[names[k]]]

\* instance.terminate(manager) when the executor manager accepts it
Terminated(rec) == [rec EXCEPT !.state = STATE_TERMINATED]

\* "except DispatchError" sits inside the for loop of _do_terminate
TermOnDispatchError_LeavesLoop(rest) == <<>>

TermOnDispatchError(rest) == rest

TermLogEntry(instance, ev) == [inst |-> instance.name, ev |-> ev]

\* _runner fires _do_terminate; the for loop starts on shutting_down()
TermStart ==
    /\ "terminator" \in started
    /\ tpc = "idle"
    /\ clock >= tnext
    /\ tpc' = "loop"
    /\ tqueue' = shutting_down(store)
    /\ tsnap' = shutting_down(store)
    /\ tlog' = <<>>
    /\ UNCHANGED <<tlim, tnext, envVars, polVars, txVars, bootVars, schedVars, updVars>>

\* one pass through the body of the for loop of _do_terminate
TermStep ==
    /\ tpc = "loop"
    /\ tqueue # <<>>
    /\ LET instance == Head(tqueue)
           c == check(tlim, clock)
       IN /\ tlim' = c.lim
          /\ IF LimiterDenies(c)
             THEN /\ tpc' = "idle"
                  /\ tnext' = clock + Interval
                  /\ tqueue' = <<>>
                  /\ tlog' = Append(tlog, TermLogEntry(instance, "break"))
                  /\ UNCHANGED <<store, issuedAt>>
             ELSE /\ issuedAt' = Issue("terminator")
                  /\ \/ /\ store' = Put(store, Terminated(instance))
                        /\ tqueue' = Tail(tqueue)
                        /\ tlog' = Append(tlog,
                                       TermLogEntry(instance, "terminated"))
                     \/ /\ flaky
                        /\ store' = store
                        /\ tqueue' = TermOnDispatchError(Tail(tqueue))
                        /\ tlog' = Append(tlog,
                                       TermLogEntry(instance, "error"))
                  /\ UNCHANGED <<tpc, tnext>>
    /\ UNCHANGED <<tsnap, clock, clients, started, flaky, containers, polVars, txVars, bootVars,
                   schedVars, updVars>>

\* the for loop of _do_terminate is exhausted and the tick returns
TermReturn ==
    /\ tpc = "loop"
    /\ tqueue = <<>>
    /\ tpc' = "idle"
    /\ tnext' = clock + Interval
    /\ UNCHANGED <<tlim, tqueue, tsnap, tlog, envVars, polVars, txVars, bootVars, schedVars,
                   updVars>>

\* ---------------------------------------------------------------------
\* util.Lock(store_client, 'leader', holder)
\* ---------------------------------------------------------------------

\* entering: the holder is written into the slot only if the slot is absent
TryAcquire(lk, holder) == IF lk = None THEN holder ELSE lk

\* leaving: the holder's slot is deleted
Release(lk, holder) == IF lk = holder THEN None ELSE lk

\* ---------------------------------------------------------------------
\* Bootstrap
\* ---------------------------------------------------------------------
ServiceOf(i) == <<"_store", "_bootstrap", "api", "worker", "cache", "web">>[i]

BootNames == 1..(MaxSvc + 2)

StoreInst == CHOOSE i \in BootNames : ServiceOf(i) = "_store"

\* the release manifests: _store, some services, with or without _bootstrap
Manifests ==
    {{"_store"} \cup m : m \in SUBSET {ServiceOf(i) : i \in BootNames}}

\* insts = {name: _create(...) for name in services if name != '_bootstrap'}
Materialized_All(name) == TRUE

Materialized(name) == name # "_bootstrap"

\* _create(): a fresh instance, not yet persisted
Created(i) ==
    [name |-> i, state |-> STATE_PENDING, assigned_to |-> None,
     placement |-> NoPlacement, image |-> "v1", command |-> None,
     env |-> Items(<<>>), ports |-> Items(<<>>)]

\* the orders in which a dict of these keys may iterate
Orders(keys) ==
    {o \in [1..Cardinality(keys) -> keys] :
        \A a, b \in 1..Cardinality(keys) : a # b => o[a] # o[b]}

\* _select_executor(): the first executor the registry yields
select_executor == "e1"

\* _deploy_instance(): "assert state == 'running'"
DeployOk_NoAssert(state) == TRUE

DeployOk(state) == state = "running"

\* "with leader_lock:" releases the lock however the body ends
LeaveWith_OnlyOnSuccess(lk, failed) ==
    IF failed THEN lk ELSE Release(lk, "bootstrapper")

LeaveWith(lk, failed) == Release(lk, "bootstrapper")

Event(op, inst, res) == [op |-> op, inst |-> inst, res |-> res]

\* the coordination store answers once the _store instance runs
StoreReachable ==
    \E k \in 1..Len(events) :
        events[k] = Event("wait", StoreInst, "running")

\* inst.update(state=STATE_RUNNING, assigned_to=executor)
Assigned(rec, executor) ==
    [rec EXCEPT !.state = STATE_RUNNING, !.assigned_to = executor]

loopVars == <<schedVars, updVars, termVars, polVars, txVars>>

\* lines 92-96: the instances are built in memory
BootCreate ==
    /\ bpc = "create"
    /\ LET keys == {i \in BootNames : /\ ServiceOf(i) \in manifest
                                      /\ Materialized(ServiceOf(i))}
       IN /\ insts' = [i \in keys |-> Created(i)]
          /\ border' \in Orders(keys)
    /\ bpc' = "dispatch_store"
    /\ UNCHANGED <<manifest, bidx, lock, rpc, release, events, envVars,
                   loopVars>>

\* the instance _deploy_instance is busy with
Deploying == IF bpc \in {"dispatch_store", "wait_store"}
             THEN StoreInst ELSE border[bidx]

InSection == bpc \in {"create_formation", "next", "dispatch", "wait", "update"}

\* _deploy_instance, line 56: executor_manager.dispatch(inst, name), which
\* may raise DispatchError
BootDispatch ==
    /\ bpc \in {"dispatch_store", "dispatch"}
    /\ events' = Append(events, Event("dispatch", Deploying, select_executor))
    /\ \/ /\ bpc' = IF bpc = "dispatch_store" THEN "wait_store" ELSE "wait"
          /\ lock' = lock
       \/ /\ flaky
          /\ bpc' = "failed"
          /\ lock' = IF InSection THEN LeaveWith(lock, TRUE) ELSE lock
    /\ UNCHANGED <<manifest, insts, border, bidx, rpc, release, envVars,
                   loopVars>>

\* _deploy_instance, lines 57-61: wait for the state and assert it
BootWait ==
    /\ bpc \in {"wait_store", "wait"}
    /\ \E state \in {"running", "error"} :
           /\ events' = Append(events, Event("wait", Deploying, state))
           /\ IF DeployOk(state)
              THEN /\ bpc' = IF bpc = "wait_store" THEN "start_client"
                             ELSE "update"
                   /\ lock' = lock
              ELSE /\ bpc' = "failed"
                   /\ lock' = IF InSection THEN LeaveWith(lock, TRUE)
                              ELSE lock
    /\ UNCHANGED <<manifest, insts, border, bidx, rpc, release, envVars,
                   loopVars>>

\* lines 101-102: sleep, then store_client.start()
BootStartClient ==
    /\ bpc = "start_client"
    /\ bpc' = "update_store"
    /\ events' = Append(events, Event("start_client", 0, None))
    /\ UNCHANGED <<manifest, insts, border, bidx, lock, rpc, release, envVars,
                   loopVars>>

\* lines 104-105 and 117-118: the instance is marked running and assigned
BootUpdate ==
    /\ bpc \in {"update_store", "update"}
    /\ LET i == IF bpc = "update_store" THEN StoreInst ELSE border[bidx]
           rec == Assigned(insts[i], select_executor)
       IN /\ insts' = [insts EXCEPT ![i] = rec]
          /\ store' = Put(store, rec)
          /\ events' = Append(events, Event("update", i, None))
    /\ bpc' = IF bpc = "update_store" THEN "release" ELSE "next"
    /\ bidx' = IF bpc = "update_store" THEN bidx ELSE bidx + 1
    /\ UNCHANGED <<manifest, border, lock, rpc, release, clock, clients,
                   started, flaky, containers, issuedAt, loopVars>>

\* line 108: release_store.create(formation, '1', release)
BootReleaseCreate ==
    /\ bpc = "release"
    /\ release' = manifest
    /\ events' = Append(events, Event("release_create", 0, None))
    /\ bpc' = "acquire"
    /\ UNCHANGED <<manifest, insts, border, bidx, lock, rpc, envVars,
                   loopVars>>

\* line 111: "with leader_lock:" is entered once the slot could be written
BootAcquire ==
    /\ bpc = "acquire"
    /\ TryAcquire(lock, "bootstrapper") = "bootstrapper"
    /\ lock' = TryAcquire(lock, "bootstrapper")
    /\ events' = Append(events, Event("lock_write", 0, None))
    /\ bpc' = "create_formation"
    /\ bidx' = 1
    /\ UNCHANGED <<manifest, insts, border, rpc, release, envVars, loopVars>>

\* line 112, _create_formation: one store_command.create() per instance
BootCreateFormation ==
    /\ bpc = "create_formation"
    /\ IF bidx <= Len(border)
       THEN /\ store' = Put(store, insts[border[bidx]])
            /\ events' = Append(events, Event("create", border[bidx], None))
            /\ bidx' = bidx + 1
            /\ bpc' = bpc
       ELSE /\ bidx' = 1
            /\ bpc' = "next"
            /\ UNCHANGED <<store, events>>
    /\ UNCHANGED <<manifest, insts, border, lock, rpc, release, clock,
                   clients, started, flaky, containers, issuedAt, loopVars>>

\* lines 113-114: the for loop over insts.items(), skipping _store; line
\* 119 once it is exhausted, the lock released on the way out
BootNext ==
    /\ bpc = "next"
    /\ IF bidx > Len(border)
       THEN /\ bpc' = "done"
            /\ lock' = LeaveWith(lock, FALSE)
            /\ bidx' = bidx
       ELSE /\ lock' = lock
            /\ IF ServiceOf(border[bidx]) = "_store"
               THEN bidx' = bidx + 1 /\ bpc' = bpc
               ELSE bidx' = bidx /\ bpc' = "dispatch"
    /\ UNCHANGED <<manifest, insts, border, rpc, release, events, envVars,
                   loopVars>>

\* another process enters "with Lock(store_client, 'leader', 'rival'):"
RivalAcquire ==
    /\ rpc = "out"
    /\ StoreReachable
    /\ TryAcquire(lock, "rival") = "rival"
    /\ lock' = TryAcquire(lock, "rival")
    /\ rpc' = "in"
    /\ UNCHANGED <<manifest, insts, border, bpc, bidx, release, events,
                   envVars, loopVars>>

\* and leaves it
RivalRelease ==
    /\ rpc = "in"
    /\ lock' = Release(lock, "rival")
    /\ rpc' = "out"
    /\ UNCHANGED <<manifest, insts, border, bpc, bidx, release, events,
                   envVars, loopVars>>

\* ---------------------------------------------------------------------
\* xsnaga.store: the transaction decorator and the stores that use it
\* ---------------------------------------------------------------------

\* the methods wrapped by @transaction
StoreOps ==
    {"ProcStore.create", "ProcStore.remove", "ProcStore.set_state",
     "AppStore.create", "DeployStore.create", "HypervisorStore.create",
     "HypervisorStore.remove"}

TableOf(op) ==
    CASE op \in {"ProcStore.create", "ProcStore.remove",
                 "ProcStore.set_state"} -> "proc"
      [] op = "AppStore.create" -> "app"
      [] op = "DeployStore.create" -> "deploy"
      [] OTHER -> "hypervisor"

Creates == {"ProcStore.create", "AppStore.create", "DeployStore.create",
            "HypervisorStore.create"}

Removes == {"ProcStore.remove", "HypervisorStore.remove"}

Row(table, id, state) == [table |-> table, id |-> id, state |-> state]

\* How the body f(self, *args, **kw) of each method can end: it returns
\* ("ok"), or it raises before or after it changed the session.
\* ProcStore.create reads the undefined name app_id, HypervisorStore.create
\* the undefined name Hypervisor; set_state assigns proc.state and then
\* calls _datetime() on a number; the others fail when the session does.
BodyEnds(op) ==
    CASE op \in {"ProcStore.create", "HypervisorStore.create"}
             -> {"raised_before_write"}
      [] op = "ProcStore.set_state" -> {"raised_after_write"}
      [] OTHER -> {"ok", "raised_before_write"}

\* the arguments a call can be made with, given the rows there are
ArgsOf(op, rows, id) ==
    IF op \in Creates THEN {Row(TableOf(op), id, "init")}
    ELSE IF op \in Removes THEN {r \in rows : r.table = TableOf(op)}
    ELSE {[row |-> r, state |-> st] :
             r \in {x \in rows : x.table = "proc"}, st \in {"running", "exit"}}

\* the session after the body changed it
Written(op, arg, rows) ==
    IF op \in Creates THEN rows \cup {arg}
    ELSE IF op \in Removes THEN rows \ {arg}
    ELSE (rows \ {arg.row}) \cup {Row("proc", arg.row.id, arg.state)}

\* what the body returns when it returns
BodyValue(op, arg) == IF op \in Creates THEN arg ELSE NoneValue

\* the session when the body has ended
AfterBody(op, arg, end, rows) ==
    IF end = "raised_before_write" THEN rows ELSE Written(op, arg, rows)

\* "except Exception: self.store.rollback()"
AfterExcept(end, session, rows) == IF end = "ok" THEN session ELSE rows

\* wrapper(): the caller gets the body's value from "return f(...)"; when
\* the body raised, the except clause ends normally, the finally clause
\* commits, and the wrapper falls off its end: the caller gets None.
transaction(op, arg, end, rows) ==
    LET session == AfterBody(op, arg, end, rows)
        committed == AfterExcept(end, session, rows)
    IN [outcome |-> "returned",
        value |-> IF end = "ok" THEN BodyValue(op, arg) ELSE NoneValue,
        rows |-> committed]

\* one call of a store method by a caller
TxCall ==
    /\ Len(txlog) < MaxCalls
    /\ \E op \in StoreOps : \E end \in BodyEnds(op) :
       \E arg \in ArgsOf(op, db, Len(txlog) + 1) :
           LET r == transaction(op, arg, end, db) IN
           /\ db' = r.rows
           /\ txlog' = Append(txlog,
                  [op |-> op, end |-> end, outcome |-> r.outcome,
                   value |-> r.value, before |-> db, after |-> r.rows])
    /\ UNCHANGED <<polVars, schedVars, updVars, termVars, envVars, bootVars>>

\* ---------------------------------------------------------------------
\* Other tasks that write instance records
\* ---------------------------------------------------------------------

\* the scheduler that migrated an instance records that it has: the edge
\* MIGRATING -> RUNNING of the instance state machine
MigrationRecorded ==
    /\ \E n \in DOMAIN store :
           /\ store[n].state = STATE_MIGRATING
           /\ store' = Put(store, UpdateState(store[n], STATE_RUNNING))
    /\ UNCHANGED <<clock, clients, started, flaky, containers, issuedAt,
                   loopVars, bootVars>>

\* a shutdown of an instance is requested: the edge RUNNING -> SHUTTING_DOWN
ShutdownRequested ==
    /\ \E n \in DOMAIN store :
           /\ store[n].state = STATE_RUNNING
           /\ store' = Put(store, UpdateState(store[n], STATE_SHUTTING_DOWN))
    /\ UNCHANGED <<clock, clients, started, flaky, containers, issuedAt,
                   loopVars, bootVars>>

\* the Scheduler's _runner sleeps until the next tick is due.  Only spans
\* between clock values matter, so the clock is set back to 0 with snext,
\* and the limiter is given the tokens that accrued up to then.
AwaitNextTick ==
    /\ "scheduler" \in started
    /\ spc = "idle"
    /\ clock < snext
    /\ clock' = 0
    /\ snext' = 0
    /\ slim' = [slim EXCEPT !.tokens = Accrued(slim, snext), !.last = 0]
    /\ UNCHANGED <<spc, squeue, ssnap, slog, store, clients, started, flaky,
                   containers, issuedAt, polVars, updVars, termVars,
                   bootVars, txVars>>

\* time passes
ClockAdvance ==
    /\ clock < MaxTime
    /\ clock' = clock + 1
    /\ UNCHANGED <<store, clients, started, flaky, containers, issuedAt, schedVars,
                   updVars, termVars, polVars, txVars, bootVars>>

\* ---------------------------------------------------------------------
\* Specifications
\* ---------------------------------------------------------------------
PolicyIdle ==
    /\ executors = <<>>
    /\ options = NoOptions
    /\ executors0 = <<>>
    /\ filtered = <<>>
    /\ selected = <<>>
    /\ eorder = <<>>

NoIssues == [l \in Loops |-> [t \in 0..MaxTime |-> 0]]

SchedIdle ==
    /\ slim = NewLimiter(0)
    /\ spc = "idle"
    /\ snext = 0
    /\ squeue = <<>>
    /\ ssnap = <<>>
    /\ slog = <<>>

Fleet ==
    << [name |-> "e1", tags |-> {"webserver"}, ncont |-> 2],
       [name |-> "e2", tags |-> {"db"}, ncont |-> 1] >>

UpdIdle ==
    /\ ulim = NewLimiter(0)
    /\ upc = "idle"
    /\ unext = 0
    /\ uqueue = <<>>
    /\ usnap = <<>>
    /\ ulog = <<>>

TermIdle ==
    /\ tlim = NewLimiter(0)
    /\ tpc = "idle"
    /\ tnext = 0
    /\ tqueue = <<>>
    /\ tsnap = <<>>
    /\ tlog = <<>>

TxIdle ==
    /\ db = {}
    /\ txlog = <<>>

BootIdle ==
    /\ manifest = {}
    /\ insts = <<>>
    /\ border = <<>>
    /\ bpc = "off"
    /\ bidx = 1
    /\ lock = None
    /\ rpc = "out"
    /\ release = {}
    /\ events = <<>>

DefaultConfig ==
    [image |-> "v1", command |-> None, env |-> NoneValue,
     ports |-> NoneValue]

NoContainers == [i \in InstNames |-> NoContainer]

Instance(name, state, assigned_to, placement, cfg) ==
    [name |-> name, state |-> state, assigned_to |-> assigned_to,
     placement |-> placement, image |-> cfg.image, command |-> cfg.command,
     env |-> cfg.env, ports |-> cfg.ports]

\* the instances the Scheduler meets: fresh, partially placed, constrained
\* to a tag, and already running
SchedKinds ==
    { [state |-> STATE_PENDING, assigned_to |-> None,
       placement |-> NoPlacement],
      [state |-> STATE_PENDING, assigned_to |-> "e2",
       placement |-> NoPlacement],
      [state |-> STATE_PENDING, assigned_to |-> None,
       placement |-> [requirements |-> <<"cache">>, rank |-> None]],
      [state |-> STATE_RUNNING, assigned_to |-> "e2",
       placement |-> NoPlacement] }

PolicyInit ==
    /\ \E n \in 0..MaxExec : \E f \in [1..n -> ExecutorAttrs] :
           executors = NameExecutors(f, n)
    /\ options \in PlacementOptions
    /\ executors0 = executors
    /\ filtered = <<>>
    /\ selected = <<>>
    /\ eorder = <<>>
    /\ clock = 0
    /\ store = <<>>
    /\ clients = <<>>
    /\ started = {}
    /\ flaky = TRUE
    /\ containers = <<>>
    /\ issuedAt = NoIssues
    /\ SchedIdle
    /\ UpdIdle
    /\ TermIdle
    /\ BootIdle
    /\ TxIdle

PolicyNext == Select

SpecPolicy == PolicyInit /\ [][PolicyNext]_vars

SchedInit ==
    /\ PolicyIdle
    /\ clock = 0
    /\ \E k \in [InstNames -> SchedKinds] :
           store = [i \in InstNames |->
                       Instance(i, k[i].state, k[i].assigned_to,
                                k[i].placement, DefaultConfig)]
    /\ clients \in {<<>>, Fleet}
    /\ started = {"scheduler"}
    /\ flaky = TRUE
    /\ containers = NoContainers
    /\ issuedAt = NoIssues
    /\ SchedIdle
    /\ UpdIdle
    /\ TermIdle
    /\ BootIdle
    /\ TxIdle

SchedNext == SchedStart \/ SchedStep \/ SchedReturn \/ ClockAdvance

SpecSched == SchedInit /\ [][SchedNext]_vars

\* declared configurations and observed containers: the same, and apart
\* in one attribute at a time
BaseConfig ==
    [image |-> "v2", command |-> "run",
     env |-> Items(<< <<"A", "1">>, <<"B", "2">> >>),
     ports |-> Items(<<80, 443>>)]

DriftCases ==
    { [cfg |-> BaseConfig, cont |-> BaseConfig],
      [cfg |-> BaseConfig, cont |-> [BaseConfig EXCEPT !.image = "v1"]],
      [cfg |-> BaseConfig, cont |-> [BaseConfig EXCEPT !.command = None]],
      [cfg |-> BaseConfig,
       cont |-> [BaseConfig EXCEPT
                    !.env = Items(<< <<"A", "1">>, <<"B", "3">> >>)]],
      [cfg |-> BaseConfig,
       cont |-> [BaseConfig EXCEPT
                    !.env = Items(<< <<"B", "2">>, <<"A", "1">> >>)]],
      [cfg |-> [BaseConfig EXCEPT !.env = NoneValue],
       cont |-> [BaseConfig EXCEPT !.env = Items(<<>>)]],
      [cfg |-> BaseConfig,
       cont |-> [BaseConfig EXCEPT !.ports = Items(<<443, 80>>)]],
      [cfg |-> [BaseConfig EXCEPT !.ports = NoneValue],
       cont |-> [BaseConfig EXCEPT !.ports = Items(<<>>)]],
      [cfg |-> BaseConfig, cont |-> NoContainer] }

\* the last instance of the index takes any state and any drift case ...
UpdKinds == [state : States, drift : DriftCases]

\* ... and the others are one to restart or one to repair
PlainKinds ==
    { [state |-> STATE_RUNNING,
       drift |-> [cfg |-> BaseConfig,
                  cont |-> [BaseConfig EXCEPT !.image = "v1"]]],
      [state |-> STATE_MIGRATING,
       drift |-> [cfg |-> BaseConfig, cont |-> BaseConfig]] }

UpdInit ==
    /\ PolicyIdle
    /\ clock = 0
    /\ \E rich \in UpdKinds, k \in [InstNames -> PlainKinds] :
           LET kind(i) == IF i = MaxInst THEN rich ELSE k[i] IN
           /\ store = [i \in InstNames |->
                          Instance(i, kind(i).state, "e1", NoPlacement,
                                   kind(i).drift.cfg)]
           /\ containers = [i \in InstNames |-> kind(i).drift.cont]
    /\ clients = Fleet
    /\ started = {"updater"}
    /\ flaky = TRUE
    /\ issuedAt = NoIssues
    /\ SchedIdle
    /\ UpdIdle
    /\ TermIdle
    /\ BootIdle
    /\ TxIdle

UpdNext == UpdStart \/ UpdStep \/ UpdReturn \/ ClockAdvance

SpecUpd == UpdInit /\ [][UpdNext]_vars

\* the instances all three loops have work on
LoopKinds ==
    { [state |-> STATE_PENDING,
       drift |-> [cfg |-> BaseConfig,
                  cont |-> [BaseConfig EXCEPT !.image = "v1"]]],
      [state |-> STATE_MIGRATING,
       drift |-> [cfg |-> BaseConfig, cont |-> BaseConfig]],
      [state |-> STATE_SHUTTING_DOWN,
       drift |-> [cfg |-> BaseConfig, cont |-> NoContainer]] }

LoopsInit ==
    /\ PolicyIdle
    /\ clock = 0
    /\ \E k \in [InstNames -> LoopKinds] :
           /\ store = [i \in InstNames |->
                          Instance(i, k[i].state, None, NoPlacement,
                                   k[i].drift.cfg)]
           /\ containers = [i \in InstNames |-> k[i].drift.cont]
    /\ clients = Fleet
    /\ started \in {{l} : l \in Loops}
    /\ flaky = TRUE
    /\ issuedAt = NoIssues
    /\ SchedIdle
    /\ UpdIdle
    /\ TermIdle
    /\ BootIdle
    /\ TxIdle

LoopsNext ==
    \/ SchedStart \/ SchedStep \/ SchedReturn
    \/ UpdStart \/ UpdStep \/ UpdReturn
    \/ TermStart \/ TermStep \/ TermReturn
    \/ ClockAdvance

SpecLoops == LoopsInit /\ [][LoopsNext]_vars

\* the bootstrapper, a rival for the leader lock and a Scheduler that was
\* started
BootInit ==
    /\ PolicyIdle
    /\ clock = 0
    /\ store = <<>>
    /\ clients = Fleet
    /\ started = {"scheduler"}
    /\ flaky = TRUE
    /\ containers = <<>>
    /\ issuedAt = NoIssues
    /\ SchedIdle
    /\ UpdIdle
    /\ TermIdle
    /\ manifest \in Manifests
    /\ insts = <<>>
    /\ border = <<>>
    /\ bpc = "create"
    /\ bidx = 1
    /\ lock = None
    /\ rpc = "out"
    /\ release = {}
    /\ events = <<>>
    /\ TxIdle

BootNext0 ==
    \/ BootCreate \/ BootDispatch \/ BootWait \/ BootStartClient
    \/ BootUpdate \/ BootReleaseCreate \/ BootAcquire
    \/ BootCreateFormation \/ BootNext
    \/ RivalAcquire \/ RivalRelease
    \/ SchedStart \/ SchedStep \/ SchedReturn

SpecBoot == BootInit /\ [][BootNext0]_vars

\* callers of the xsnaga stores, on a database with a few rows
StoreInit ==
    /\ PolicyIdle
    /\ clock = 0
    /\ store = <<>>
    /\ clients = <<>>
    /\ started = {}
    /\ flaky = TRUE
    /\ containers = <<>>
    /\ issuedAt = NoIssues
    /\ SchedIdle
    /\ UpdIdle
    /\ TermIdle
    /\ BootIdle
    /\ db \in SUBSET {Row("proc", 0, "init"), Row("hypervisor", 0, "init")}
    /\ txlog = <<>>

StoreNext == TxCall

SpecStore == StoreInit /\ [][StoreNext]_vars

\* One tick of a Scheduler whose limiter has the rate and burst of the
\* code, on a backlog of unassigned instances (as many as the burst, or
\* Backlog of them) and a manager that accepts every dispatch.  The clock of this specification counts the spans one
\* token takes to accrue: UnitsPerSecond of them make a second.
UnitsPerSecond == LimiterRate

ClampInit ==
    /\ PolicyIdle
    /\ clock = 0
    /\ \E n \in {LimiterBurst, Backlog} :
           store = [i \in 1..n |->
                       Instance(i, STATE_PENDING, None, NoPlacement,
                                DefaultConfig)]
    /\ clients = Fleet
    /\ started = {"scheduler"}
    /\ flaky = FALSE
    /\ containers = <<>>
    /\ issuedAt = <<>>
    /\ slim = Limiter(0, LimiterRate \div UnitsPerSecond, LimiterBurst)
    /\ spc = "loop"
    /\ snext = 0
    /\ squeue = unassigned(store)
    /\ ssnap = unassigned(store)
    /\ slog = <<>>
    /\ UpdIdle
    /\ TermIdle
    /\ BootIdle
    /\ TxIdle

ClampNext == SchedStep \/ SchedReturn \/ ClockAdvance

SpecClamp == ClampInit /\ [][ClampNext]_vars

\* one tick of the Updater and one of the Terminator, begun at any moment
\* while migrations are recorded and shutdowns requested
RaceKinds ==
    { [state |-> STATE_MIGRATING,
       drift |-> [cfg |-> BaseConfig, cont |-> BaseConfig]],
      [state |-> STATE_RUNNING,
       drift |-> [cfg |-> BaseConfig, cont |-> BaseConfig]] }

RaceInit ==
    /\ PolicyIdle
    /\ clock = 0
    /\ \E k \in [InstNames -> RaceKinds] :
           /\ store = [i \in InstNames |->
                          Instance(i, k[i].state, "e1", NoPlacement,
                                   k[i].drift.cfg)]
           /\ containers = [i \in InstNames |-> k[i].drift.cont]
    /\ clients = Fleet
    /\ started = {"updater", "terminator"}
    /\ flaky = FALSE
    /\ issuedAt = NoIssues
    /\ SchedIdle
    /\ UpdIdle
    /\ TermIdle
    /\ BootIdle
    /\ TxIdle

RaceNext ==
    \/ UpdStart \/ UpdStep \/ UpdReturn
    \/ TermStart \/ TermStep \/ TermReturn
    \/ MigrationRecorded \/ ShutdownRequested

SpecRace == RaceInit /\ [][RaceNext]_vars

\* the Scheduler ticking for ever on a backlog of instances some of which
\* no executor matches, with a manager that accepts every dispatch
StarveKinds ==
    { [state |-> STATE_PENDING, assigned_to |-> None,
       placement |-> [requirements |-> <<"cache">>, rank |-> None]],
      [state |-> STATE_PENDING, assigned_to |-> None,
       placement |-> NoPlacement] }

StarveInit ==
    /\ PolicyIdle
    /\ clock = 0
    /\ \E k \in [InstNames -> StarveKinds] :
           store = [i \in InstNames |->
                       Instance(i, k[i].state, k[i].assigned_to,
                                k[i].placement, DefaultConfig)]
    /\ clients = Fleet
    /\ started = {"scheduler"}
    /\ flaky = FALSE
    /\ containers = NoContainers
    /\ issuedAt = <<>>
    /\ SchedIdle
    /\ UpdIdle
    /\ TermIdle
    /\ BootIdle
    /\ TxIdle

StarveNext ==
    \/ SchedStart \/ SchedStep \/ SchedReturn
    \/ AwaitNextTick \/ ClockAdvance

\* RecurringTask fires the tick again and again, and a tick that has begun
\* runs to its end
SpecStarve ==
    /\ StarveInit
    /\ [][StarveNext]_vars
    /\ WF_vars(SchedStart)
    /\ WF_vars(SchedStep)
    /\ WF_vars(SchedReturn)
    /\ WF_vars(AwaitNextTick)

\* ---------------------------------------------------------------------
\* Properties of the bootstrap (specification SpecBoot)
\* ---------------------------------------------------------------------
StoreWrites == {"update", "release_create", "lock_write", "create"}

StoreRanBefore(k) ==
    \E j \in 1..(k - 1) :
        /\ events[j] = Event("wait", StoreInst, "running")
        /\ \E i \in 1..(j - 1) : /\ events[i].op = "dispatch"
                                 /\ events[i].inst = StoreInst

\* C1: every write of the bootstrapper to the coordination store, and every
\* dispatch of an instance other than _store, comes after the dispatch of
\* _store and after its wait returned 'running'.
C1_StoreRunsFirst ==
    \A k \in 1..Len(events) :
        (\/ events[k].op \in StoreWrites
         \/ events[k].op = "dispatch" /\ events[k].inst # StoreInst)
            => StoreRanBefore(k)

\* the bootstrapper has written the store, taken the lock and dispatched an
\* instance of another service
C1_Witness ==
    /\ \E k \in 1..Len(events) : events[k].op = "lock_write"
    /\ \E k \in 1..Len(events) : events[k].op = "create"
    /\ \E k \in 1..Len(events) :
           events[k].op = "dispatch" /\ events[k].inst # StoreInst

SchedDispatches(n) ==
    /\ Len(slog') = Len(slog) + 1
    /\ Last(slog').inst = n
    /\ Last(slog').ev \in {"dispatched", "error"}

C3_NoTickDispatch ==
    \A n \in DOMAIN store :
        SchedDispatches(n) => lock # "bootstrapper"

C3_NoDoubleDispatch ==
    \A n \in DOMAIN store :
        SchedDispatches(n)
            => ~\E k \in 1..Len(events) :
                    events[k].op = "dispatch" /\ events[k].inst = n

\* C3: while the bootstrapper holds the leader lock, no Scheduler tick
\* dispatches an instance the bootstrapper has persisted, and no instance
\* the bootstrapper dispatched is dispatched by a Scheduler tick.
C3_NoStealing == [][C3_NoTickDispatch /\ C3_NoDoubleDispatch]_vars

\* the records of the bootstrap the coordination store holds
NothingPersisted == release = {} /\ DOMAIN store = {}

AllPersisted == release = manifest /\ DOMAIN store = DOMAIN insts

\* _deploy_instance's wait() returned a state other than 'running'
DeployFailed ==
    /\ bpc = "failed"
    /\ Last(events).op = "wait"
    /\ Last(events).res # "running"

\* C12: a bootstrap that failed on a deploy leaves no release record and no
\* instance record in the coordination store; the release and the full set
\* of instance records are there only when the bootstrap completed.
C12_AllOrNothing ==
    /\ DeployFailed => NothingPersisted
    /\ AllPersisted => ~DeployFailed

BootstrapInst == CHOOSE i \in BootNames : ServiceOf(i) = "_bootstrap"

\* the instances of the manifest's services other than _bootstrap
Expected ==
    {i \in BootNames : ServiceOf(i) \in manifest /\ i # BootstrapInst}

DispatchesOf(i) ==
    {k \in 1..Len(events) : events[k].op = "dispatch" /\ events[k].inst = i}

LockWrites == {k \in 1..Len(events) : events[k].op = "lock_write"}

C13_Completed ==
    bpc = "done" =>
        /\ DOMAIN insts = Expected
        /\ \A i \in Expected :
               /\ Cardinality(DispatchesOf(i)) = 1
               /\ \A k \in DispatchesOf(i), w \in LockWrites :
                      IF i = StoreInst THEN k < w ELSE w < k

C13_NoBootstrapInstance ==
    /\ BootstrapInst \notin DOMAIN insts
    /\ BootstrapInst \notin DOMAIN store
    /\ \A k \in 1..Len(events) : events[k].inst # BootstrapInst

C13_InsideSection ==
    (Len(events') = Len(events) + 1 /\ Last(events').op = "dispatch"
     /\ Last(events').inst # StoreInst)
        => lock = "bootstrapper" /\ InSection

\* C13: a completed bootstrap has dispatched one instance for each service
\* of the manifest other than _bootstrap, each once, _store before the lock
\* was written and the others inside the leader-lock section; no instance
\* of _bootstrap is ever constructed, persisted or dispatched.
C13_BootstrapCoverage ==
    [](C13_Completed /\ C13_NoBootstrapInstance) /\ [][C13_InsideSection]_vars

\* a bootstrap of a manifest with _bootstrap and two more services is done
C13_Witness ==
    /\ bpc = "done"
    /\ "_bootstrap" \in manifest
    /\ Cardinality(Expected) >= 3

\* ---------------------------------------------------------------------
\* Properties of the placement policy (specification SpecPolicy)
\* ---------------------------------------------------------------------
SatisfiesAll(e, requirements) ==
    \A i \in 1..Len(requirements) : eval_requirement(requirements[i], e)

\* C5: with a non-empty requirement list, the executors that survive the
\* filter are exactly those of the input that satisfy all requirements, in
\* input order and each once.
C5_FilterKeepsExactlyAllMatching ==
    (Len(selected) > 0 /\ options.requirements # <<>>)
        => filtered = SelectSeq(executors0,
                          LAMBDA e : SatisfiesAll(e, options.requirements))

MinCount(s) == CHOOSE m \in {s[i].ncont : i \in 1..Len(s)} :
                   \A i \in 1..Len(s) : m <= s[i].ncont

FirstWithCount(s, m) ==
    s[CHOOSE i \in 1..Len(s) :
          s[i].ncont = m /\ \A j \in 1..(i - 1) : s[j].ncont # m]

\* C6: with options.rank unset, select returns the earliest of the filtered
\* executors whose container count is minimal.
C6_DefaultRankPicksLeastLoaded ==
    (Len(selected) > 0 /\ options.rank = None /\ filtered # <<>>)
        => selected[1] = FirstWithCount(filtered, MinCount(filtered))

\* C7: select leaves the executor list it was handed as it was (same
\* elements, same order), and a second call returns the same executor.
C7_SelectLeavesInputUntouched ==
    /\ Len(selected) > 0 => executors = executors0
    /\ Len(selected) = 2 => selected[1] = selected[2]

\* ---------------------------------------------------------------------
\* Properties of the control loops
\* ---------------------------------------------------------------------
RECURSIVE SumIssued(_, _, _)
SumIssued(l, a, b) ==
    IF a > b THEN 0 ELSE issuedAt[l][a] + SumIssued(l, a + 1, b)

\* C4: for each control loop, the number of actions it issues (dispatch,
\* restart, state repair, terminate) in any span of T clock units is at most
\* Burst + Rate * T.
C4_RateLimitBound ==
    \A l \in Loops : \A a \in 0..clock : \A b \in a..clock :
        SumIssued(l, a, b) <= Burst + Rate * (b - a)

\* a loop has used up the whole allowance of a span of positive length, and
\* its limiter has turned an instance away
C4_Witness ==
    \E l \in Loops : \E a \in 0..clock : \E b \in (a + 1)..clock :
        /\ SumIssued(l, a, b) = Burst + Rate * (b - a)
        /\ \/ l = "scheduler" /\ slog # <<>> /\ Last(slog).ev = "break"
           \/ l = "updater" /\ ulog # <<>> /\ Last(ulog).ev = "break"
           \/ l = "terminator" /\ tlog # <<>> /\ Last(tlog).ev = "break"

\* the declared and the observed configuration agree: image and command the
\* same, env the same mapping, ports the same list
AsMapping(x) == IF x = NoneValue THEN {} ELSE {x.items[i] : i \in 1..Len(x.items)}

AsList(x) == IF x = NoneValue THEN <<>> ELSE x.items

ConfigMatches(inst, cont) ==
    /\ inst.image = cont.image
    /\ inst.command = cont.command
    /\ AsMapping(inst.env) = AsMapping(cont.env)
    /\ AsList(inst.ports) = AsList(cont.ports)

Known(pair) == pair.container # NoContainer

MigratingMatch(pair) ==
    /\ pair.instance.state = STATE_MIGRATING
    /\ Known(pair)
    /\ ConfigMatches(pair.instance, pair.container)

UpdLogAligned ==
    /\ Len(ulog) <= Len(usnap)
    /\ \A k \in 1..Len(ulog) : ulog[k].inst = usnap[k].instance.name

UpdTickCovers(k) ==
    upc = "idle" => (k <= Len(ulog) \/ (ulog # <<>> /\ Last(ulog).ev = "break"))

C8_Visits ==
    /\ UpdLogAligned
    /\ \A k \in 1..Len(usnap) :
           MigratingMatch(usnap[k]) =>
               /\ k <= Len(ulog) => ulog[k].ev \in {"repair", "break"}
               /\ UpdTickCovers(k)

C8_Effect ==
    (Len(ulog') = Len(ulog) + 1 /\ Last(ulog').ev = "repair")
        => /\ store'[Last(ulog').inst].state = STATE_RUNNING
           /\ issuedAt'["updater"][clock] = issuedAt["updater"][clock] + 1

Restarts == {"restart", "restart_error"}

C9_Visits ==
    /\ UpdLogAligned
    /\ \A k \in 1..Len(usnap) :
           LET pair == usnap[k] IN
           /\ (Known(pair) /\ is_running(pair.instance)
               /\ ~ConfigMatches(pair.instance, pair.container))
                  => /\ k <= Len(ulog) => ulog[k].ev \in Restarts \cup {"break"}
                     /\ UpdTickCovers(k)
           /\ (Known(pair) /\ ConfigMatches(pair.instance, pair.container)
               /\ k <= Len(ulog))
                  => /\ ulog[k].ev \notin Restarts
                     /\ pair.instance.state # STATE_MIGRATING
                            => ulog[k].ev = "skip"

C9_Tokens ==
    (Len(ulog') = Len(ulog) + 1)
        => /\ Last(ulog').ev \in Restarts
                => /\ ulim'.tokens = Accrued(ulim, clock) - 1
                   /\ issuedAt'["updater"][clock] =
                          issuedAt["updater"][clock] + 1
           /\ Last(ulog').ev = "skip"
                => /\ ulim' = ulim
                   /\ issuedAt' = issuedAt

\* C9: an instance that is PENDING, RUNNING or MIGRATING in the Updater's
\* snapshot and whose known container differs from it in image, command, env
\* or ports gets exactly one restart for one token in the tick (unless the
\* limiter turns it or an earlier instance away); one whose container matches
\* gets no restart and, unless it is MIGRATING, takes no token.
C9_DriftRestart == []C9_Visits /\ [][C9_Tokens]_vars

\* a tick has restarted an instance whose container differs in env only
C9_Witness ==
    \E k \in 1..Len(ulog) :
        /\ ulog[k].ev \in Restarts
        /\ usnap[k].instance.image = usnap[k].container.image
        /\ usnap[k].instance.command = usnap[k].container.command
        /\ AsList(usnap[k].instance.ports) = AsList(usnap[k].container.ports)

SchedLogAligned ==
    /\ Len(slog) <= Len(ssnap)
    /\ \A k \in 1..Len(slog) : slog[k].inst = ssnap[k].name

C10_TickGoesOn ==
    /\ SchedLogAligned
    /\ spc = "idle"
           => \/ Len(slog) = Len(ssnap)
              \/ slog # <<>> /\ Last(slog).ev = "break"

C10_StaysUnassigned ==
    (Len(slog') = Len(slog) + 1 /\ Last(slog').ev = "error")
        => /\ spc' = "loop"
           /\ squeue' = Tail(squeue)
           /\ store' = store
           /\ \E k \in 1..Len(unassigned(store')) :
                  unassigned(store')[k].name = Last(slog').inst

\* C10: a DispatchError for one instance does not end the Scheduler tick:
\* every instance unassigned() yielded is visited unless the limiter turns
\* one away, and the instance that failed is still yielded by unassigned().
C10_DispatchErrorContained == []C10_TickGoesOn /\ [][C10_StaysUnassigned]_vars

\* a tick went on to dispatch an instance after a DispatchError on another
C10_Witness ==
    \E k \in 1..(Len(slog) - 1) :
        /\ slog[k].ev = "error"
        /\ slog[k + 1].ev = "dispatched"

\* ---------------------------------------------------------------------
\* Properties of the xsnaga stores (specification SpecStore)
\* ---------------------------------------------------------------------
Failed(call) == call.end # "ok"

\* C11: when the body of a transactional store method fails, the database is
\* as it was before the call and the caller gets the failure, not a normal
\* return value.
C11_FailureSurfaced ==
    \A k \in 1..Len(txlog) :
        Failed(txlog[k])
            => /\ txlog[k].after = txlog[k].before
               /\ txlog[k].outcome = "raised"

\* the policy has no executor for the instance the for loop is at
PolicyReturnsNone(instance) ==
    /\ instance.assigned_to = None
    /\ select(clients, PlacementOf(instance)) = NoExecutor

SchedVisits(ev) == Len(slog') = Len(slog) + 1 /\ Last(slog').ev = ev

InUnassigned(st, name) ==
    \E k \in 1..Len(unassigned(st)) : unassigned(st)[k].name = name

\* C14: when the policy returns none for an instance without assigned_to
\* that the limiter let through, the tick dispatches nothing for it, goes on
\* with the next instance, and the instance is still unassigned.
C14_NoMatchIsNoError ==
    [][(/\ Len(slog') = Len(slog) + 1
        /\ PolicyReturnsNone(Head(squeue))
        /\ Last(slog').ev # "break")
           => /\ Last(slog').ev = "nomatch"
              /\ store' = store
              /\ issuedAt' = issuedAt
              /\ spc' = "loop"
              /\ squeue' = Tail(squeue)
              /\ InUnassigned(store', Last(slog').inst)]_vars

\* a tick met an instance no executor of a non-empty fleet matches, and
\* went on to the next instance
C14_Witness ==
    /\ clients # <<>>
    /\ \E k \in 1..(Len(slog) - 1) :
           /\ slog[k].ev = "nomatch"
           /\ slog[k + 1].ev # "break"

\* C15: an instance unassigned() yielded with assigned_to set, and that the
\* limiter let through, is dispatched to the executor assigned_to names,
\* whatever the client list holds.
C15_RedispatchToAssigned ==
    [][(/\ Len(slog') = Len(slog) + 1
        /\ Head(squeue).assigned_to # None
        /\ Last(slog').ev # "break")
           => /\ Last(slog').ev \in {"dispatched", "error"}
              /\ Last(slog').to = Head(squeue).assigned_to
              /\ Last(slog').ev = "dispatched"
                     => store'[Last(slog').inst].assigned_to
                            = Head(squeue).assigned_to]_vars

\* a tick dispatched a partially placed instance while no executor was live
C15_Witness ==
    /\ clients = <<>>
    /\ \E k \in 1..Len(slog) :
           /\ slog[k].ev = "dispatched"
           /\ ssnap[k].assigned_to # None
           /\ slog[k].to = ssnap[k].assigned_to

\* ---------------------------------------------------------------------
\* More properties of the Updater (specification SpecUpd)
\* ---------------------------------------------------------------------
Reconciled == {STATE_PENDING, STATE_RUNNING, STATE_MIGRATING}

ToSkip(pair) ==
    \/ pair.container = NoContainer
    \/ pair.instance.state \notin Reconciled

\* C16: the Updater passes over an instance whose container is none or
\* whose state is not PENDING, RUNNING or MIGRATING: no restart, no state
\* update, no token taken, and the tick goes on.
C16_SkipRule ==
    [][(Len(ulog') = Len(ulog) + 1 /\ ToSkip(Head(uqueue)))
           => /\ Last(ulog').ev = "skip"
              /\ ulim' = ulim
              /\ store' = store
              /\ issuedAt' = issuedAt
              /\ upc' = "loop"
              /\ uqueue' = Tail(uqueue)]_vars

\* a tick passed over a SHUTTING_DOWN or TERMINATED instance whose container
\* differs from its configuration
C16_Witness ==
    \E k \in 1..Len(ulog) :
        /\ ulog[k].ev = "skip"
        /\ usnap[k].instance.state \in {STATE_SHUTTING_DOWN, STATE_TERMINATED}
        /\ Known(usnap[k])
        /\ ~ConfigMatches(usnap[k].instance, usnap[k].container)

\* ---------------------------------------------------------------------
\* Properties of the Terminator (specification SpecLoops)
\* ---------------------------------------------------------------------
TermCalls == {"terminated", "error"}

\* the visits of the tick follow shutting_down()'s sequence from its start,
\* only the last of them can be the one the limiter turned away, and a tick
\* that has returned has gone through the whole sequence unless it was
\* turned away
C17_Prefix ==
    /\ Len(tlog) <= Len(tsnap)
    /\ \A k \in 1..Len(tlog) :
           /\ tlog[k].inst = tsnap[k].name
           /\ k < Len(tlog) => tlog[k].ev \in TermCalls
    /\ \A j, k \in 1..Len(tlog) : j # k => tlog[j].inst # tlog[k].inst
    /\ tpc = "idle"
           => \/ Len(tlog) = Len(tsnap)
              \/ tlog # <<>> /\ Last(tlog).ev = "break"

C17_Tokens ==
    (Len(tlog') = Len(tlog) + 1)
        => /\ Last(tlog').ev \in TermCalls
                => /\ Accrued(tlim, clock) >= 1
                   /\ tlim'.tokens = Accrued(tlim, clock) - 1
                   /\ issuedAt'["terminator"][clock]
                          = issuedAt["terminator"][clock] + 1
                   /\ tpc' = "loop"
           /\ Last(tlog').ev = "break"
                => /\ Accrued(tlim, clock) < 1
                   /\ tpc' = "idle"
                   /\ store' = store
                   /\ issuedAt' = issuedAt

\* C17: in a Terminator tick terminate is called for a prefix of what
\* shutting_down() yielded, in that order and once per instance, one token
\* per call; the tick ends at the first instance that finds the bucket
\* empty, and a DispatchError does not keep it from the instances after.
C17_TerminatorOrder == []C17_Prefix /\ [][C17_Tokens]_vars

\* a tick went on after a DispatchError and was then turned away
C17_Witness ==
    /\ Len(tlog) >= 3
    /\ tlog[1].ev = "error"
    /\ tlog[2].ev = "terminated"
    /\ Last(tlog).ev = "break"

\* ---------------------------------------------------------------------
\* Properties of one tick at the limiter's real rate (specification
\* SpecClamp)
\* ---------------------------------------------------------------------
DispatchCalls ==
    Cardinality({k \in 1..Len(slog) : slog[k].ev \in {"dispatched", "error"}})

\* the tick began at time 0
TickUnderOneSecond == clock < UnitsPerSecond

\* C18: a tick that has lasted under one second has made at most 30
\* dispatch calls.
C18_RateClamp ==
    (Len(ssnap) = Backlog /\ TickUnderOneSecond)
        => DispatchCalls <= LimiterBurst

\* C18 as amended: a tick that has lasted d clock units has made at most
\* 30 dispatch calls plus the tokens that accrued in d, one per unit.
C18_RateClampAccrual ==
    TickUnderOneSecond
        => DispatchCalls
               <= LimiterBurst + (LimiterRate \div UnitsPerSecond) * clock

\* a tick used the burst and every token that accrued while it ran, and
\* was then turned away
C18_Witness ==
    /\ Len(ssnap) = Backlog
    /\ clock >= 1
    /\ TickUnderOneSecond
    /\ DispatchCalls = LimiterBurst + clock
    /\ Last(slog).ev = "break"

\* ---------------------------------------------------------------------
\* Properties of the loops running together (specification SpecRace)
\* ---------------------------------------------------------------------
Gone == {STATE_SHUTTING_DOWN, STATE_TERMINATED}

\* C19: no instance goes from SHUTTING_DOWN or TERMINATED back to RUNNING;
\* the Updater's repair of an instance that was MIGRATING in its snapshot
\* does not write RUNNING over what another task wrote since.
C19_NoResurrection ==
    [][\A n \in DOMAIN store :
           store[n].state \in Gone => store'[n].state # STATE_RUNNING]_vars

\* ---------------------------------------------------------------------
\* Properties of the Scheduler in the long run (specification SpecStarve)
\* ---------------------------------------------------------------------

\* unassigned() yields the instance and the policy has an executor for it
Placeable(n) ==
    /\ InUnassigned(store, n)
    /\ select(clients, PlacementOf(store[n])) # NoExecutor

\* C20: while ticks keep firing, every unassigned instance the policy has an
\* executor for is dispatched in the end, whatever precedes it in
\* unassigned().
C20_NoStarvation ==
    \A n \in InstNames :
        [](Placeable(n) => <>(store[n].state = STATE_RUNNING))

====
